---- MODULE Spec2Model ----
(***************************************************************************)
(* The newTabSection experiment API (src/unnamed/part_000) and the sample  *)
(* New York Times extension that uses it (src/nyt-extension/background.js).*)
(*                                                                         *)
(* The API is a thin layer over two host modules that it imports:          *)
(*   SectionsManager (resource://activity-stream/lib/SectionsManager.jsm)  *)
(*     a Map `sections` from section id to the options OBJECT handed to    *)
(*     addSection (stored by reference, and updated in place with          *)
(*     Object.assign by updateSection), a flag `initialized`, and an event *)
(*     emitter whose listeners run synchronously in registration order;    *)
(*   EventManager (resource://gre/modules/ExtensionCommon.jsm)             *)
(*     addListener(cb) of a callback already registered is ignored,        *)
(*     removeListener(cb) of one not registered is ignored, fire.async     *)
(*     queues the call to the extension's callback and drops it if the     *)
(*     callback has been removed by the time it would run.                 *)
(* Since the object stored under the extension's id is always the API's    *)
(* own `sectionOptions` object, the variable `options` is both: the record *)
(* the setters mutate and the value of sections.get(id) while id is a key. *)
(***************************************************************************)
EXTENDS Integers, Sequences, FiniteSets, TLC

\* ------------------------------------------------------------------ bounds
MaxPending  == 3   \* listeners on the registry's INIT event
MaxInbox    == 2   \* event firings queued for the background script
MaxFlights  == 2   \* update() invocations suspended in getCards()
MaxFetches  == 2   \* remote fetches issued in one behaviour
FiresCap    == 2   \* the history counter initFires saturates here
NumVals     == 1   \* distinct arguments tried for each setter
NumCards    == 2   \* distinct card lists passed to addCards by a caller
MaxIntervals == 1  \* whole update intervals the clock may advance by
MaxMillis    == 1  \* single milliseconds the clock may advance by
MaxMedia     == 3  \* entries in the multimedia list of a result
MaxResults   == 21 \* results in a response of the news API
NumCallbacks   == 1  \* extension callbacks that subscribe to action streams
MaxActionInbox == 2  \* action firings queued for the extension
MaxListeners   == 2  \* listeners on ACTION_DISPATCHED

\* ------------------------------------------------------- values and ids
ExtId     == "ext"         \* this.extension.id, the id of the API's section
BuiltinId == "topstories"  \* a section of another owner in the same registry
Ids       == {ExtId, BuiltinId}

Undefined  == "undefined"  \* a string-valued option that is not set
NoRows     == -1           \* `rows` (or the cache `cards`) is undefined
EmptyRows  == 0            \* `rows` is the empty list []
NoTime     == -1           \* `lastUpdated` is undefined
StrVals    == {"v" \o ToString(i) : i \in 1..NumVals}
RowVals    == 2..(1 + NumVals)
CardLists  == 1..NumCards  \* a non-empty card list, named by a number

Truthy(v) == v = "true"

\* this.sectionOptions after the constructor, for a manifest without overrides
DefaultOptions ==
  [title |-> ExtId, maxRows |-> 1, emptyState |-> "Loading",
   icon |-> Undefined, icons |-> Undefined, infoOption |-> Undefined,
   rows |-> NoRows, enabled |-> Undefined]

\* the options object of the built-in section
BuiltinOptions ==
  [title |-> BuiltinId, maxRows |-> 1, emptyState |-> "Loading",
   icon |-> Undefined, icons |-> Undefined, infoOption |-> Undefined,
   rows |-> NoRows, enabled |-> "true"]

VARIABLES
  initialized,   \* SectionsManager.initialized
  sections,      \* the keys of SectionsManager.sections
  options,       \* this.sectionOptions = sections.get(ExtId) when present
  builtin,       \* sections.get(BuiltinId) when present
  initEmitter,   \* the listeners on SectionsManager.INIT, in order
  onInitSub,     \* the extension has a listener on onInitialized
  onUninitSub,   \* the extension has a listener on onUninitialized
  tickListeners, \* the callbacks registered on onSystemTick
  inbox,         \* fire.async() calls not yet run by the extension
  emitted,       \* the registry events emitted by the last step
  alive,         \* the extension has not been shut down
  cards,         \* background.js: the cached card list
  lastUpdated,   \* background.js: when the cache was filled
  now,           \* Date.now()
  flights,       \* suspended update() calls, each awaiting its fetch
  fetchSeq,      \* number of fetches issued
  lastLifecycle, \* history: last lifecycle event run by the background script
                 \* ("reinit": init run again with no uninit since)
  initFires,     \* history: onInitialized firings since the last
                 \* UNINIT / disable / removal of the section
  lastOp,        \* history: the API operation or host event of the last step
  lifecycleOpen, \* history: onInitialized has fired since the last firing
                 \* of onUninitialized
  enableRequested, \* history: enable() was called, and disable() or
                 \* onShutdown() has not removed the section since
  hung,          \* the update() calls whose fetch failed: never resumed
  manifest,      \* extension.manifest.new_tab_section_options
  sectionOptions, \* what the constructor builds from the manifest
  response,      \* the `results` of a response of the news API
  resolved,      \* the cards getCards() resolves with for that response
  actionListeners, \* the listeners on ACTION_DISPATCHED, in order, each
                 \* with the stream and the callback it was registered for
  actionInbox,   \* fire.async() calls of the action streams not yet run
  received       \* the call an action callback runs in this step, if any

vars == <<initialized, sections, options, builtin, initEmitter, onInitSub,
          onUninitSub, tickListeners, inbox, emitted, alive, cards,
          lastUpdated, now, flights, fetchSeq, lastLifecycle, initFires,
          lastOp, lifecycleOpen, enableRequested, hung, manifest,
          sectionOptions, response, resolved, actionListeners, actionInbox,
          received>>

\* the inputs and results of the constructor and of getCards
pureVars == <<manifest, sectionOptions, response, resolved>>

\* the action streams onAction, onSystemTick, onNewTabOpened
actionVars == <<actionListeners, actionInbox, received>>

pollerVars == <<tickListeners, cards, lastUpdated, now, flights, fetchSeq,
                lastLifecycle>>

\* --------------------------------------------------------------------------
\* The part of the state that the registry's operations and the listeners
\* they run read and write, gathered in one record so that a handler that
\* makes several calls is one step.
Reg ==
  [sections |-> sections, options |-> options, builtin |-> builtin,
   inbox |-> inbox, emitted |-> <<>>, initFires |-> initFires,
   lifecycleOpen |-> lifecycleOpen]

Commit(r) ==
  /\ Len(r.inbox) <= MaxInbox
  /\ sections' = r.sections
  /\ options' = r.options
  /\ builtin' = r.builtin
  /\ inbox' = r.inbox
  /\ emitted' = r.emitted
  /\ initFires' = r.initFires
  /\ lifecycleOpen' = r.lifecycleOpen

Event(ev, id, keys, broadcast) ==
  [ev |-> ev, id |-> id, keys |-> keys, broadcast |-> broadcast]

Emit(r, e) == [r EXCEPT !.emitted = Append(@, e)]

\* Map.get / the object a key refers to
SectionsGet(r, id) == IF id = ExtId THEN r.options ELSE r.builtin

SectionsPut(r, id, obj) ==
  IF id = ExtId THEN [r EXCEPT !.options = obj] ELSE [r EXCEPT !.builtin = obj]

\* Object.assign(target, src): the keys of src overwrite those of target
Assign(target, src) ==
  [k \in DOMAIN target |-> IF k \in DOMAIN src THEN src[k] ELSE target[k]]

\* fire.async() of the onInitialized EventManager
fireInitialized(r) ==
  [r EXCEPT !.inbox = Append(@, "init"),
            !.initFires = IF @ < FiresCap THEN @ + 1 ELSE @,
            !.lifecycleOpen = TRUE]

\* fire.async() of the onUninitialized EventManager
fireUninitialized(r) ==
  [r EXCEPT !.inbox = Append(@, "uninit"), !.lifecycleOpen = FALSE]

\* history only: an event that ends the section's lifecycle has happened
EndLifecycle(r, id) == IF id = ExtId THEN [r EXCEPT !.initFires = 0] ELSE r

\* ------------------------------------------------- listeners of the API
\* (a variant that does not look at the section's `enabled` property)
initListenerAnyState(r) ==
  IF ExtId \in r.sections THEN fireInitialized(r) ELSE r

initListener(r) ==
  IF ExtId \in r.sections /\ Truthy(r.options.enabled)
  THEN fireInitialized(r) ELSE r

enabledListener(r, enabledSection) ==
  IF enabledSection = ExtId THEN fireInitialized(r) ELSE r

uninitListener(r) == fireUninitialized(r)

\* (a variant that does not compare the section's id)
disabledListenerAnySection(r, disabledSection) == fireUninitialized(r)

disabledListener(r, disabledSection) ==
  IF disabledSection = ExtId THEN fireUninitialized(r) ELSE r

\* --------------------------------------------------- SectionsManager
SM_updateSection(r, id, opts, shouldBroadcast) ==
  IF id \in r.sections
  THEN Emit(SectionsPut(r, id, Assign(SectionsGet(r, id), opts)),
            Event("UPDATE_SECTION", id, DOMAIN opts, shouldBroadcast))
  ELSE r

SM_addSection(r, id, obj) ==
  Emit(SectionsPut([r EXCEPT !.sections = @ \cup {id}], id, obj),
       Event("ADD_SECTION", id, {}, FALSE))

SM_removeSection(r, id) ==
  EndLifecycle([Emit(r, Event("REMOVE_SECTION", id, {}, FALSE))
                  EXCEPT !.sections = @ \ {id}], id)

SM_enableSection(r, id) ==
  LET u == Emit(SM_updateSection(r, id, [enabled |-> "true"], TRUE),
                Event("ENABLE_SECTION", id, {}, FALSE))
  IN IF onInitSub THEN enabledListener(u, id) ELSE u

SM_disableSection(r, id) ==
  LET u == Emit(SM_updateSection(r, id,
                   [enabled |-> "false", rows |-> EmptyRows], TRUE),
                Event("DISABLE_SECTION", id, {}, FALSE))
      v == EndLifecycle(u, id)
  IN IF onUninitSub THEN disabledListener(v, id) ELSE v

\* ------------------------------------------- closures of getAPI(context)
updateSection(r) ==
  IF ExtId \in r.sections
  THEN SM_updateSection(r, ExtId, r.options, TRUE) ELSE r

\* (a variant that registers a fresh record without the rows set so far)
enableCallbackFreshRecord(r) ==
  SM_enableSection(
    SM_addSection(r, ExtId, [r.options EXCEPT !.rows = NoRows]), ExtId)

enableCallback(r) ==
  SM_enableSection(SM_addSection(r, ExtId, r.options), ExtId)

\* the listeners that can be on the registry's INIT event
Persistent == {"initListener"}
Once       == {"updateSection", "enableCallback"}

RunListener(r, l) ==
  CASE l = "initListener"   -> initListener(r)
    [] l = "updateSection"  -> updateSection(r)
    [] l = "enableCallback" -> enableCallback(r)

\* emit(INIT): the listeners run in registration order
RECURSIVE EmitInit(_, _)
EmitInit(r, ls) ==
  IF ls = <<>> THEN r ELSE EmitInit(RunListener(r, Head(ls)), Tail(ls))

IsPersistent(l) == l \in Persistent


Op(op, arg) == [op |-> op, arg |-> arg]

\* SectionsManager.onceInitialized(callback)
onceInitialized(r, callback) ==
  IF initialized
  THEN Commit(RunListener(r, callback)) /\ UNCHANGED initEmitter
  ELSE /\ Len(initEmitter) < MaxPending
       /\ Commit(r)
       /\ initEmitter' = Append(initEmitter, callback)

\* (a variant that calls updateSection at once, initialized or not)
onUpdateOptionAtOnce(r) == Commit(updateSection(r)) /\ UNCHANGED initEmitter

onUpdateOption(r) == onceInitialized(r, "updateSection")

\* ------------------------------------------------------------ the setters
setTitle(title) ==
  /\ alive
  /\ onUpdateOption([Reg EXCEPT !.options.title = title])
  /\ UNCHANGED <<enableRequested, hung, pureVars, actionVars>>
  /\ lastOp' = Op("setTitle", title)
  /\ UNCHANGED <<initialized, onInitSub, onUninitSub, alive, pollerVars>>

setIcon(icon) ==
  /\ alive
  /\ onUpdateOption([Reg EXCEPT !.options.icons = icon])
  /\ UNCHANGED <<enableRequested, hung, pureVars, actionVars>>
  /\ lastOp' = Op("setIcon", icon)
  /\ UNCHANGED <<initialized, onInitSub, onUninitSub, alive, pollerVars>>

setMaxRows(maxRows) ==
  /\ alive
  /\ onUpdateOption([Reg EXCEPT !.options.maxRows = maxRows])
  /\ UNCHANGED <<enableRequested, hung, pureVars, actionVars>>
  /\ lastOp' = Op("setMaxRows", ToString(maxRows))
  /\ UNCHANGED <<initialized, onInitSub, onUninitSub, alive, pollerVars>>

setEmptyState(emptyState) ==
  /\ alive
  /\ onUpdateOption([Reg EXCEPT !.options.emptyState = emptyState])
  /\ UNCHANGED <<enableRequested, hung, pureVars, actionVars>>
  /\ lastOp' = Op("setEmptyState", emptyState)
  /\ UNCHANGED <<initialized, onInitSub, onUninitSub, alive, pollerVars>>

setInfoOption(infoOption) ==
  /\ alive
  /\ onUpdateOption([Reg EXCEPT !.options.infoOption = infoOption])
  /\ UNCHANGED <<enableRequested, hung, pureVars, actionVars>>
  /\ lastOp' = Op("setInfoOption", infoOption)
  /\ UNCHANGED <<initialized, onInitSub, onUninitSub, alive, pollerVars>>

\* ----------------------------------------------- enable, disable, addCards
enable ==
  /\ alive
  /\ onceInitialized(Reg, "enableCallback")
  /\ enableRequested' = TRUE
  /\ UNCHANGED <<hung, pureVars, actionVars>>
  /\ lastOp' = Op("enable", IF ~initialized THEN "queued"
                            ELSE IF ExtId \in sections THEN "registered"
                            ELSE "absent")
  /\ UNCHANGED <<initialized, onInitSub, onUninitSub, alive, pollerVars>>

\* (a variant that hides the section instead of removing it)
disableByHiding ==
  /\ alive
  /\ Commit(SM_disableSection(Reg, ExtId))
  /\ enableRequested' = (enableRequested /\ ExtId \notin sections)
  /\ UNCHANGED <<hung, pureVars, actionVars>>
  /\ lastOp' = Op("disable", "")
  /\ UNCHANGED <<initialized, initEmitter, onInitSub, onUninitSub, alive,
                 pollerVars>>

disable ==
  /\ alive
  /\ Commit(SM_removeSection(Reg, ExtId))
  /\ enableRequested' = (enableRequested /\ ExtId \notin sections)
  /\ UNCHANGED <<hung, pureVars, actionVars>>
  /\ lastOp' = Op("disable", "")
  /\ UNCHANGED <<initialized, initEmitter, onInitSub, onUninitSub, alive,
                 pollerVars>>

\* (a variant that keeps the cards of an unregistered section for later)
addCardsBuffered(r, cardList, shouldBroadcast) ==
  IF ExtId \in r.sections
  THEN SM_updateSection(r, ExtId, [rows |-> cardList], shouldBroadcast)
  ELSE [r EXCEPT !.options.rows = cardList]

addCards(r, cardList, shouldBroadcast) ==
  IF ExtId \in r.sections
  THEN SM_updateSection(r, ExtId, [rows |-> cardList], shouldBroadcast)
  ELSE r

\* addCards called by an extension script, with or without the second argument
CallAddCards(cardList, shouldBroadcast) ==
  /\ alive
  /\ Commit(addCards(Reg, cardList, shouldBroadcast))
  /\ UNCHANGED <<enableRequested, hung, pureVars, actionVars>>
  /\ lastOp' = Op("addCards", ToString(cardList))
  /\ UNCHANGED <<initialized, initEmitter, onInitSub, onUninitSub, alive,
                 pollerVars>>

\* API.onShutdown, and the extension's context closing with it: every
\* EventManager of the context removes the listeners it registered, and
\* the background script is gone
onShutdown ==
  /\ alive
  /\ alive' = FALSE
  /\ Commit([SM_removeSection(Reg, ExtId) EXCEPT !.inbox = <<>>])
  /\ initEmitter' = SelectSeq(initEmitter, LAMBDA l : ~IsPersistent(l))
  /\ onInitSub' = FALSE
  /\ onUninitSub' = FALSE
  /\ tickListeners' = {}
  /\ flights' = <<>>
  /\ enableRequested' = (enableRequested /\ ExtId \notin sections)
  /\ hung' = {}
  /\ actionListeners' = <<>>
  /\ actionInbox' = <<>>
  /\ UNCHANGED <<pureVars, received>>
  /\ lastOp' = Op("onShutdown", "")
  /\ UNCHANGED <<initialized, cards, lastUpdated, now, fetchSeq,
                 lastLifecycle>>

\* ---------------------------------------- onInitialized / onUninitialized
\* browser.newTabSection.onInitialized.addListener(...): the register
\* function of the EventManager runs
onInitializedAddListener ==
  /\ alive
  /\ ~onInitSub
  /\ Len(initEmitter) < MaxPending
  /\ Commit(IF initialized THEN initListener(Reg) ELSE Reg)
  /\ initEmitter' = Append(initEmitter, "initListener")
  /\ onInitSub' = TRUE
  /\ UNCHANGED <<enableRequested, hung, pureVars, actionVars>>
  /\ lastOp' = Op("onInitialized.addListener", "")
  /\ UNCHANGED <<initialized, onUninitSub, alive, pollerVars>>

onUninitializedAddListener ==
  /\ alive
  /\ ~onUninitSub
  /\ Commit(Reg)
  /\ onUninitSub' = TRUE
  /\ UNCHANGED <<enableRequested, hung, pureVars, actionVars>>
  /\ lastOp' = Op("onUninitialized.addListener", "")
  /\ UNCHANGED <<initialized, initEmitter, onInitSub, alive, pollerVars>>

\* ------------------------------------------------- the host's own events
\* SectionsManager.init: the built-in section is added, then INIT is emitted
RegistryInit ==
  /\ ~initialized
  /\ initialized' = TRUE
  /\ Commit(EmitInit(Emit(SM_addSection(Reg, BuiltinId, builtin),
                          Event("INIT", "", {}, FALSE)),
                     initEmitter))
  /\ initEmitter' = SelectSeq(initEmitter, IsPersistent)
  /\ UNCHANGED <<enableRequested, hung, pureVars, actionVars>>
  /\ lastOp' = Op("INIT", "")
  /\ UNCHANGED <<onInitSub, onUninitSub, alive, pollerVars>>

\* the host tears the registry down: initialized is reset, UNINIT is emitted
RegistryUninit ==
  /\ initialized
  /\ initialized' = FALSE
  /\ LET u == [Emit(Reg, Event("UNINIT", "", {}, FALSE))
                 EXCEPT !.initFires = 0]
     IN Commit(IF onUninitSub THEN uninitListener(u) ELSE u)
  /\ UNCHANGED <<enableRequested, hung, pureVars, actionVars>>
  /\ lastOp' = Op("UNINIT", "")
  /\ UNCHANGED <<initEmitter, onInitSub, onUninitSub, alive, pollerVars>>

\* the user shows or hides a registered section in the preferences pane
UserEnableSection(id) ==
  /\ initialized
  /\ id \in sections
  /\ Commit(SM_enableSection(Reg, id))
  /\ UNCHANGED <<enableRequested, hung, pureVars, actionVars>>
  /\ lastOp' = Op("ENABLE_SECTION", id)
  /\ UNCHANGED <<initialized, initEmitter, onInitSub, onUninitSub, alive,
                 pollerVars>>

UserDisableSection(id) ==
  /\ initialized
  /\ id \in sections
  /\ Commit(SM_disableSection(Reg, id))
  /\ UNCHANGED <<enableRequested, hung, pureVars, actionVars>>
  /\ lastOp' = Op("DISABLE_SECTION", id)
  /\ UNCHANGED <<initialized, initEmitter, onInitSub, onUninitSub, alive,
                 pollerVars>>


\* ======================================================= background.js
\* 15 minutes
UPDATE_INTERVAL == 15 * 60 * 1000

\* EventManager.addListener / removeListener: the registered callbacks are
\* a set keyed by the callback
EM_addListener(listeners, callback) == listeners \cup {callback}

EM_removeListener(listeners, callback) == listeners \ {callback}

\* (a variant that registers a new closure around update on each call)
addTickListenerClosure(listeners) ==
  EM_addListener(listeners, "closure" \o ToString(Cardinality(listeners)))

\* browser.newTabSection.onSystemTick.addListener(update)
addTickListener(listeners) == EM_addListener(listeners, "update")

\* browser.newTabSection.onSystemTick.removeListener(update)
removeTickListener(listeners) == EM_removeListener(listeners, "update")

\* (a variant that counts a cache of exactly the interval's age as stale)
NeedsFetchAtInterval ==
  \/ cards = NoRows
  \/ (lastUpdated # NoTime /\ now - lastUpdated >= UPDATE_INTERVAL)

\* the condition of update(): no cache, or a cache older than the interval
NeedsFetch ==
  \/ cards = NoRows
  \/ (lastUpdated # NoTime /\ now - lastUpdated > UPDATE_INTERVAL)

\* (a variant that publishes the cached list while the request is out)
updatePublishingStale(r, caller) ==
  IF NeedsFetch
  THEN /\ fetchSeq < MaxFetches
       /\ Len(flights) < MaxFlights
       /\ fetchSeq' = fetchSeq + 1
       /\ flights' = Append(flights, [caller |-> caller, ver |-> fetchSeq + 1])
       /\ Commit(IF cards # NoRows THEN addCards(r, cards, TRUE) ELSE r)
       /\ UNCHANGED <<tickListeners, cards, lastUpdated>>
  ELSE /\ Commit(addCards(r, cards, TRUE))
       /\ tickListeners' = IF caller = "init"
                           THEN addTickListener(tickListeners)
                           ELSE tickListeners
       /\ UNCHANGED <<fetchSeq, flights, cards, lastUpdated>>

\* update(), called by init ("init") or as the tick listener ("update"), up
\* to its first suspension: either getCards() is started and the call is
\* suspended, or the cached list is published again; init then subscribes
update(r, caller) ==
  IF NeedsFetch
  THEN /\ fetchSeq < MaxFetches
       /\ Len(flights) < MaxFlights
       /\ fetchSeq' = fetchSeq + 1
       /\ flights' = Append(flights, [caller |-> caller, ver |-> fetchSeq + 1])
       /\ Commit(r)
       /\ UNCHANGED <<tickListeners, cards, lastUpdated>>
  ELSE /\ Commit(addCards(r, cards, TRUE))
       /\ tickListeners' = IF caller = "init"
                           THEN addTickListener(tickListeners)
                           ELSE tickListeners
       /\ UNCHANGED <<fetchSeq, flights, cards, lastUpdated>>

Received == [Reg EXCEPT !.inbox = Tail(@)]

\* the onInitialized listener of background.js runs
init ==
  /\ inbox # <<>> /\ Head(inbox) = "init"
  /\ update(Received, "init")
  /\ lastLifecycle' = IF lastLifecycle \in {"init", "reinit"}
                      THEN "reinit" ELSE "init"
  /\ UNCHANGED <<enableRequested, hung, pureVars, actionVars>>
  /\ lastOp' = Op("init", "")
  /\ UNCHANGED <<initialized, initEmitter, onInitSub, onUninitSub, alive, now>>

\* the onUninitialized listener of background.js runs
uninit ==
  /\ inbox # <<>> /\ Head(inbox) = "uninit"
  /\ Commit(Received)
  /\ tickListeners' = removeTickListener(tickListeners)
  /\ lastLifecycle' = "uninit"
  /\ UNCHANGED <<enableRequested, hung, pureVars, actionVars>>
  /\ lastOp' = Op("uninit", "")
  /\ UNCHANGED <<initialized, initEmitter, onInitSub, onUninitSub, alive,
                 cards, lastUpdated, now, flights, fetchSeq>>

\* a queued tick reaches the extension: update runs if it is still a
\* listener of onSystemTick, and the call is dropped otherwise
tick ==
  /\ inbox # <<>> /\ Head(inbox) = "tick"
  /\ IF "update" \in tickListeners
     THEN update(Received, "update")
     ELSE Commit(Received) /\
          UNCHANGED <<tickListeners, cards, lastUpdated, flights, fetchSeq>>
  /\ UNCHANGED <<enableRequested, hung, pureVars, actionVars>>
  /\ lastOp' = Op("tick", "")
  /\ UNCHANGED <<initialized, initEmitter, onInitSub, onUninitSub, alive, now,
                 lastLifecycle>>

\* the "load" event of the i-th outstanding request: getCards() resolves and
\* the suspended update() runs to its end; a suspended init() then subscribes
getCardsLoad(i) ==
  /\ i \in 1..Len(flights)
  /\ LET f == flights[i]
     IN /\ cards' = f.ver
        /\ Commit(addCards(Reg, f.ver, TRUE))
        /\ lastUpdated' = now
        /\ tickListeners' = IF f.caller = "init"
                            THEN addTickListener(tickListeners)
                            ELSE tickListeners
  /\ flights' = [j \in 1..(Len(flights) - 1) |->
                   IF j < i THEN flights[j] ELSE flights[j + 1]]
  /\ UNCHANGED <<enableRequested, hung, pureVars, actionVars>>
  /\ lastOp' = Op("getCards.load", ToString(i))
  /\ UNCHANGED <<initialized, initEmitter, onInitSub, onUninitSub, alive, now,
                 fetchSeq, lastLifecycle>>

\* the host dispatches SYSTEM_TICK; the registry proxies it when it has a
\* section, and the listener of onSystemTick fires for each callback
DispatchTick ==
  /\ initialized
  /\ sections # {}
  /\ Commit([Emit(Reg, Event("ACTION_DISPATCHED", "SYSTEM_TICK", {}, FALSE))
               EXCEPT !.inbox =
                 @ \o [k \in 1..Cardinality(tickListeners) |-> "tick"]])
  /\ UNCHANGED <<enableRequested, hung, pureVars, actionVars>>
  /\ lastOp' = Op("SYSTEM_TICK", "")
  /\ UNCHANGED <<initialized, initEmitter, onInitSub, onUninitSub, alive,
                 pollerVars>>

\* the instants the clock can show
Instants ==
  {a * UPDATE_INTERVAL + b : a \in 0..MaxIntervals, b \in 0..MaxMillis}

\* time passes: by a millisecond, or by a whole update interval
TimePasses(d) ==
  /\ now + d \in Instants
  /\ now' = now + d
  /\ emitted' = <<>>
  /\ UNCHANGED <<lifecycleOpen, enableRequested, hung, pureVars, actionVars>>
  /\ lastOp' = Op("clock", "")
  /\ UNCHANGED <<initialized, sections, options, builtin, initEmitter,
                 onInitSub, onUninitSub, tickListeners, inbox, alive, cards,
                 lastUpdated, flights, fetchSeq, lastLifecycle, initFires>>

\* ================================================================ systems
InitBridge ==
  /\ initialized = FALSE
  /\ sections = {}
  /\ options = DefaultOptions
  /\ builtin = BuiltinOptions
  /\ initEmitter = <<>>
  /\ onInitSub = FALSE
  /\ onUninitSub = FALSE
  /\ tickListeners = {}
  /\ inbox = <<>>
  /\ emitted = <<>>
  /\ alive = TRUE
  /\ cards = NoRows
  /\ lastUpdated = NoTime
  /\ now = 0
  /\ flights = <<>>
  /\ fetchSeq = 0
  /\ lastLifecycle = "none"
  /\ initFires = 0
  /\ lastOp = Op("start", "")
  /\ lifecycleOpen = FALSE
  /\ enableRequested = FALSE
  /\ hung = {}

\* no manifest has been read and no response has been received
InitPure ==
  /\ manifest = <<>>
  /\ sectionOptions = <<>>
  /\ response = <<>>
  /\ resolved = <<>>

\* no listener is on an action stream
InitActions ==
  /\ actionListeners = <<>>
  /\ actionInbox = <<>>
  /\ received = <<>>

Init == InitBridge /\ InitPure /\ InitActions

\* The registry, the lifecycle events of the API and the background script
Next ==
  \/ RegistryInit
  \/ RegistryUninit
  \/ \E id \in Ids : UserEnableSection(id)
  \/ \E id \in Ids : UserDisableSection(id)
  \/ DispatchTick
  \/ enable
  \/ disable
  \/ onInitializedAddListener
  \/ onUninitializedAddListener
  \/ init
  \/ uninit
  \/ tick
  \/ \E i \in 1..MaxFlights : getCardsLoad(i)

Spec == Init /\ [][Next]_vars

\* The registry and the API operations on the section, called in any order
NextApi ==
  \/ RegistryInit
  \/ RegistryUninit
  \/ \E id \in Ids : UserEnableSection(id)
  \/ \E id \in Ids : UserDisableSection(id)
  \/ \E v \in StrVals : setTitle(v)
  \/ \E v \in StrVals : setIcon(v)
  \/ \E v \in RowVals : setMaxRows(v)
  \/ \E v \in StrVals : setEmptyState(v)
  \/ \E v \in StrVals : setInfoOption(v)
  \/ enable
  \/ disable
  \/ \E c \in CardLists, b \in BOOLEAN : CallAddCards(c, b)
  \/ onShutdown

SpecApi == Init /\ [][NextApi]_vars

\* ================================================================ claims
Range(f) == {f[i] : i \in DOMAIN f}

Count(ls, x) == Cardinality({i \in DOMAIN ls : ls[i] = x})

Last(ls) == ls[Len(ls)]

\* no update() is suspended and no event is waiting for the background script
Quiescent == flights = <<>> /\ inbox = <<>>

\* C1: while the last lifecycle event run by the poller is onUninitialized
\* (or none has run) and every pending handler has finished, update is not
\* a listener of the tick stream.
C1_UninitializedIsUnsubscribed ==
  (lastLifecycle \in {"none", "uninit"} /\ Quiescent)
    => "update" \notin tickListeners

\* C2: the poller never holds more than one subscription to the tick stream.
C2_AtMostOneTickSubscription == Cardinality(tickListeners) <= 1

C2_Witness ==
  /\ lastLifecycle = "reinit"
  /\ Quiescent
  /\ tickListeners = {"update"}

\* C3: onInitialized never fires twice without an UNINIT, a disable or a
\* removal of the section in between.
C3_OneFiringPerTransition == initFires <= 1

\* the section is in the registry and its `enabled` property is true
SectionEnabled == ExtId \in sections /\ Truthy(options.enabled)

\* C4 as stated: a subscription to onInitialized causes one firing exactly
\* when the section is in the registry and enabled at that moment.
C4_CatchUpWheneverEnabled ==
  [][onInitializedAddListener =>
       IF SectionEnabled
       THEN inbox' = Append(inbox, "init")
       ELSE inbox' = inbox]_vars

\* C4, amended: a subscription to onInitialized causes one firing exactly
\* when the registry is initialized and the section is in it and enabled;
\* otherwise the subscription itself causes no firing.
C4_CatchUpWhenInitializedAndEnabled ==
  [][onInitializedAddListener =>
       IF initialized /\ SectionEnabled
       THEN inbox' = Append(inbox, "init")
       ELSE inbox' = inbox]_vars

C4_Witness ==
  /\ lastOp.op = "onInitialized.addListener"
  /\ initialized
  /\ SectionEnabled
  /\ inbox # <<>>
  /\ Last(inbox) = "init"

\* C5: every UNINIT of the registry, every disable() that removes the
\* section, and every disabling of the section through the registry queues
\* an onUninitialized call for the subscriber.
C5_UninitializedOnTeardownOrRemoval ==
  [][(onUninitSub /\ (\/ RegistryUninit
                      \/ (disable /\ ExtId \in sections)
                      \/ UserDisableSection(ExtId)))
       => inbox' = Append(inbox, "uninit")]_vars

\* C6: addCards on an unregistered section changes nothing, emits nothing
\* and queues nothing; on a registered section it sets `rows` alone and the
\* update carries the caller's broadcast flag.
C6_AddCardsDropsWhenAbsent ==
  [][\A c \in CardLists, b \in BOOLEAN :
       CallAddCards(c, b) =>
         IF ExtId \notin sections
         THEN /\ UNCHANGED <<sections, options, builtin, initEmitter>>
              /\ emitted' = <<>>
         ELSE /\ options' = [options EXCEPT !.rows = c]
              /\ UNCHANGED <<sections, builtin, initEmitter>>
              /\ emitted' = <<Event("UPDATE_SECTION", ExtId, {"rows"}, b)>>]_vars

C6_Witness ==
  /\ lastOp.op = "addCards"
  /\ ExtId \notin sections
  /\ options.rows = NoRows
  /\ emitted = <<>>

\* C7: enable() on a section that is already registered keeps its record
\* (rows included) and only marks it enabled; a second enable() changes
\* nothing in the registry, and so do callbacks of enable() that run at INIT
\* for a registered section.
C7_EnableKeepsExistingSection ==
  [][/\ (enable /\ initialized /\ ExtId \in sections) =>
          /\ options' = [options EXCEPT !.enabled = "true"]
          /\ UNCHANGED <<sections, builtin>>
     /\ (enable /\ initialized /\ lastOp.op = "enable") =>
          UNCHANGED <<sections, options, builtin>>
     /\ (RegistryInit /\ ExtId \in sections
           /\ "enableCallback" \in Range(initEmitter)) =>
          /\ options' = [options EXCEPT !.enabled = "true"]
          /\ sections' = sections \cup {BuiltinId}]_vars

C7_Witness ==
  /\ lastOp = Op("enable", "registered")
  /\ ExtId \in sections
  /\ options.rows \in CardLists
  /\ Truthy(options.enabled)

\* C8: each setter sets the field of its name, and no other field, to its
\* argument.
C8_SetterSetsItsField ==
  [][/\ \A v \in StrVals :
          setTitle(v) => options' = [options EXCEPT !.title = v]
     /\ \A v \in StrVals :
          setIcon(v) => options' = [options EXCEPT !.icon = v]
     /\ \A v \in RowVals :
          setMaxRows(v) => options' = [options EXCEPT !.maxRows = v]
     /\ \A v \in StrVals :
          setEmptyState(v) => options' = [options EXCEPT !.emptyState = v]
     /\ \A v \in StrVals :
          setInfoOption(v) => options' = [options EXCEPT !.infoOption = v]]_vars

Setters == {"setTitle", "setIcon", "setMaxRows", "setEmptyState",
            "setInfoOption"}

\* the update of the whole options record that updateSection requests
FullUpdate == Event("UPDATE_SECTION", ExtId, DOMAIN DefaultOptions, TRUE)

\* the number of queued update requests that find the section registered
\* when their turn comes at INIT
RECURSIVE Effective(_, _)
Effective(ls, present) ==
  IF ls = <<>> THEN 0
  ELSE (IF Head(ls) = "updateSection" /\ present THEN 1 ELSE 0)
       + Effective(Tail(ls), present \/ Head(ls) = "enableCallback")

\* C9: a setter called before INIT updates nothing and queues one request;
\* the request runs once at the next INIT and is then gone; a setter called
\* after INIT updates at once; without an INIT nothing is ever requested.
C9_UpdateRunsOnceAtInit ==
  [][/\ (lastOp'.op \in Setters /\ ~initialized) =>
          /\ emitted' = <<>>
          /\ UNCHANGED <<sections, builtin>>
          /\ initEmitter' = Append(initEmitter, "updateSection")
     /\ (lastOp'.op \in Setters /\ initialized) =>
          /\ emitted' = IF ExtId \in sections THEN <<FullUpdate>> ELSE <<>>
          /\ UNCHANGED <<sections, builtin, initEmitter>>
     /\ RegistryInit =>
          /\ "updateSection" \notin Range(initEmitter')
          /\ Count(emitted', FullUpdate) = Effective(initEmitter, ExtId \in sections)
     /\ (~initialized /\ ~initialized') =>
          /\ FullUpdate \notin Range(emitted')
          /\ Count(initEmitter', "updateSection")
               >= Count(initEmitter, "updateSection")]_vars

C9_Witness ==
  /\ lastOp.op = "INIT"
  /\ Count(emitted, FullUpdate) = 1
  /\ "updateSection" \notin Range(initEmitter)

\* C10: disable() and onShutdown() remove the section of this extension and
\* nothing else; when it is not there they change nothing, so a second call
\* leaves the registry as the first did.
C10_DisableRemovesOnlyItsSection ==
  [][(disable \/ onShutdown) =>
       /\ ExtId \notin sections'
       /\ sections' = sections \ {ExtId}
       /\ UNCHANGED <<options, builtin>>
       /\ (lastOp.op \in {"disable", "onShutdown"} =>
             UNCHANGED <<sections, options, builtin>>)]_vars

C10_Witness ==
  /\ lastOp.op \in {"disable", "onShutdown"}
  /\ sections = {BuiltinId}
  /\ options.rows \in CardLists

\* C18: after disable() or onShutdown() has removed the section it comes
\* back into the registry only if enable() has been called since.
C18_RemovedUntilEnabledAgain ==
  [][(ExtId \notin sections /\ ExtId \in sections') => enableRequested']_vars

\* C19: at most one remote fetch is outstanding at any time.
C19_AtMostOneFetchInFlight == Len(flights) <= 1

\* a step in which onUninitialized fires
FiresUninitialized == Count(inbox', "uninit") > Count(inbox, "uninit")

\* C20 as stated: onUninitialized fires only after onInitialized has fired
\* with no firing of onUninitialized since.
C20_UninitializedEndsALifecycle ==
  [][FiresUninitialized => lifecycleOpen]_vars

\* C20, amended: onUninitialized fires for a subscriber exactly on a
\* registry UNINIT and on a DISABLE_SECTION of this extension's section,
\* and on every UNINIT, whether or not onInitialized has fired before.
C20_UninitializedOnUninitOrDisable ==
  [][/\ FiresUninitialized =>
          (onUninitSub /\ (RegistryUninit \/ UserDisableSection(ExtId)))
     /\ (onUninitSub /\ (RegistryUninit \/ UserDisableSection(ExtId))) =>
          inbox' = Append(inbox, "uninit")]_vars

C20_Witness ==
  /\ lastOp.op = "UNINIT"
  /\ inbox = <<"uninit">>
  /\ ExtId \notin sections
  /\ lastLifecycle = "none"

\* ===================================================== API.constructor
\* the options a manifest can declare
ManifestKeys ==
  {"title", "maxRows", "contextMenuOptions", "emptyState", "icon",
   "infoOption"}

Null == "null"  \* an option of the schema that the manifest leaves out

\* extension.getURL(path)
getURL(path) == "moz-extension://" \o ExtId \o "/" \o path

\* icon.startsWith("moz-extension://"), over the icons a manifest can name
StartsWithMozExtension(icon) == \E path \in StrVals : icon = getURL(path)

ManifestValues(k) ==
  IF k = "icon"
  THEN {Null, ""} \cup StrVals \cup {getURL(path) : path \in StrVals}
  ELSE {Null} \cup StrVals

\* the objects new_tab_section_options can be: any of the keys, each null
\* or with a value
Manifests ==
  UNION {{m \in [K -> UNION {ManifestValues(k) : k \in K}] :
            \A k \in K : m[k] \in ManifestValues(k)} :
         K \in SUBSET ManifestKeys}

\* the first argument of the second Object.assign of the constructor
Defaults ==
  [title |-> ExtId, maxRows |-> "1",
   contextMenuOptions |->
     "OpenInNewWindow,OpenInPrivateWindow,Separator,BlockUrl",
   emptyState |-> "Loading"]

\* reading a property: a key an object does not have reads as undefined
Get(obj, k) == IF k \in DOMAIN obj THEN obj[k] ELSE Undefined

\* Object.assign(target, src) for objects with any keys: every own key of
\* src is copied, with its value, whatever the value is
ObjectAssign(target, src) ==
  [k \in DOMAIN target \cup DOMAIN src |->
     IF k \in DOMAIN src THEN src[k] ELSE target[k]]

\* the constructor: nulls of the manifest become undefined, the result is
\* assigned over the defaults, a relative icon is resolved
constructor(manifestObject) ==
  LET manifestOptions ==
        [prop \in DOMAIN manifestObject |->
           IF manifestObject[prop] = Null THEN Undefined
           ELSE manifestObject[prop]]
      merged == ObjectAssign(Defaults, manifestOptions)
      icon == Get(merged, "icon")
  IN IF icon \notin {Undefined, ""} /\ ~StartsWithMozExtension(icon)
     THEN [merged EXCEPT !.icon = getURL(icon)]
     ELSE merged

\* the API object is constructed for an extension
Construct ==
  /\ lastOp.op = "start"
  /\ sectionOptions' = constructor(manifest)
  /\ lastOp' = Op("constructor", "")
  /\ UNCHANGED <<initialized, sections, options, builtin, initEmitter,
                 onInitSub, onUninitSub, tickListeners, inbox, emitted, alive,
                 cards, lastUpdated, now, flights, fetchSeq, lastLifecycle,
                 initFires, lifecycleOpen, enableRequested, hung, manifest,
                 response, resolved, actionVars>>

InitConstructor ==
  /\ InitBridge
  /\ InitActions
  /\ manifest \in Manifests
  /\ sectionOptions = <<>>
  /\ response = <<>>
  /\ resolved = <<>>

NextConstructor == Construct

\* The constructor, for every manifest
SpecConstructor == InitConstructor /\ [][NextConstructor]_vars

\* C11: a key the manifest gives as null ends with the default's value, so
\* no field the defaults supply is undefined; every other key (the icon,
\* which is resolved, aside) has the manifest's value.
C11_NullFallsBackToDefault ==
  lastOp.op = "constructor" =>
    /\ \A k \in DOMAIN Defaults : Get(sectionOptions, k) # Undefined
    /\ \A k \in DOMAIN manifest :
         IF manifest[k] = Null
         THEN k \in DOMAIN Defaults => Get(sectionOptions, k) = Defaults[k]
         ELSE k # "icon" => Get(sectionOptions, k) = manifest[k]

\* ============================================================ getCards
SLICE_END == 20         \* results.slice(0, 20)
MAX_IMAGE_WIDTH == 300  \* width <= 300

MediaTypes  == {"image", "video"}
MediaWidths == {0, 150, 280, 300, 320}

Min(a, b) == IF a <= b THEN a ELSE b

\* the multimedia lists of a result: up to MaxMedia entries, the url of an
\* entry naming its place in the list
MediaLists ==
  UNION {{[j \in 1..n |-> [type |-> e[j].type, width |-> e[j].width,
                           url |-> "img" \o ToString(j)]] :
            e \in [1..n -> [type : MediaTypes, width : MediaWidths]]} :
         n \in 0..MaxMedia}

\* the `results` arrays of a response: n results with the same media list
Responses(n) ==
  {[i \in 1..n |-> [title |-> "title" \o ToString(i),
                    url |-> "url" \o ToString(i),
                    abstract |-> "abstract" \o ToString(i),
                    multimedia |-> m]] :
     m \in MediaLists}

\* (a variant in which an equally wide image replaces the current one)
RECURSIVE forEachMultimediaLastWins(_, _)
forEachMultimediaLastWins(image, multimedia) ==
  IF multimedia = <<>> THEN image
  ELSE LET e == Head(multimedia)
       IN forEachMultimediaLastWins(
            IF e.type = "image" /\ e.width >= image.width
               /\ e.width <= MAX_IMAGE_WIDTH
            THEN [width |-> e.width, url |-> e.url] ELSE image,
            Tail(multimedia))

\* multimedia.forEach(...): the image chosen so far, entry after entry
RECURSIVE forEachMultimedia(_, _)
forEachMultimedia(image, multimedia) ==
  IF multimedia = <<>> THEN image
  ELSE LET e == Head(multimedia)
       IN forEachMultimedia(
            IF e.type = "image" /\ e.width > image.width
               /\ e.width <= MAX_IMAGE_WIDTH
            THEN [width |-> e.width, url |-> e.url] ELSE image,
            Tail(multimedia))

\* the function given to map: one result becomes one card
toCard(result) ==
  [title |-> result.title,
   url |-> result.url,
   description |-> result.abstract,
   image |-> forEachMultimedia([width |-> 0, url |-> ""],
                               result.multimedia).url,
   hostname |-> "nytimes"]

\* the cards the load listener of getCards resolves with
getCards(results) ==
  [i \in 1..Min(Len(results), SLICE_END) |-> toCard(results[i])]

\* a response is loaded and getCards resolves
ResolveCards ==
  /\ lastOp.op = "start"
  /\ resolved' = getCards(response)
  /\ lastOp' = Op("getCards", "")
  /\ UNCHANGED <<initialized, sections, options, builtin, initEmitter,
                 onInitSub, onUninitSub, tickListeners, inbox, emitted, alive,
                 cards, lastUpdated, now, flights, fetchSeq, lastLifecycle,
                 initFires, lifecycleOpen, enableRequested, hung, manifest,
                 sectionOptions, response, actionVars>>

InitGetCards ==
  /\ InitBridge
  /\ InitActions
  /\ manifest = <<>>
  /\ sectionOptions = <<>>
  /\ \E n \in 0..MaxResults : response \in Responses(n)
  /\ resolved = <<>>

NextGetCards == ResolveCards

\* getCards, for every response
SpecGetCards == InitGetCards /\ [][NextGetCards]_vars

\* the images of a media list that may be chosen
Eligible(m) ==
  {j \in DOMAIN m : m[j].type = "image" /\ 0 < m[j].width
                    /\ m[j].width <= 300}

\* the url of the first of the widest eligible images, "" without one
WidestFirst(m) ==
  IF Eligible(m) = {} THEN ""
  ELSE m[CHOOSE j \in Eligible(m) :
           \A l \in Eligible(m) :
             \/ m[l].width < m[j].width
             \/ (m[l].width = m[j].width /\ j <= l)].url

\* C17: the cards are the first 20 results at most, in order, each with
\* hostname "nytimes" and with the first of the widest images of at most
\* 300 pixels, or "" when the result has no such image.
C17_WidestImageFirstTwenty ==
  lastOp.op = "getCards" =>
    /\ Len(resolved) = (IF Len(response) <= 20 THEN Len(response) ELSE 20)
    /\ \A i \in 1..Len(resolved) :
         /\ resolved[i].title = response[i].title
         /\ resolved[i].url = response[i].url
         /\ resolved[i].description = response[i].abstract
         /\ resolved[i].hostname = "nytimes"
         /\ resolved[i].image = WidestFirst(response[i].multimedia)

C17_Witness ==
  /\ lastOp.op = "getCards"
  /\ Len(response) > 20
  /\ Len(resolved) = 20
  /\ LET m == response[20].multimedia
     IN /\ Len(m) = 3
        /\ m[1].type = "image" /\ m[1].width = 320
        /\ m[2].type = "image" /\ m[2].width = 280
        /\ m[3].type = "image" /\ m[3].width = 280
        /\ resolved[20].image = "img2"

\* ====================================================== action streams
ActivityStreamActions ==
  [SYSTEM_TICK |-> "SystemTick", NEW_TAB_LOAD |-> "NewTabOpened"]

ActionTypes == DOMAIN ActivityStreamActions

\* the key of the event of one action: `on${ActivityStreamActions[action]}`
StreamOf(action) == "on" \o ActivityStreamActions[action]

Streams == {"onAction"} \cup {StreamOf(a) : a \in ActionTypes}

Callbacks == {"callback" \o ToString(i) : i \in 1..NumCallbacks}
\* the data of a dispatched action, passed on as it is
Payloads  == {"data"}

\* a call queued by fire.async for a callback of a stream
Call(stream, callback, args) ==
  [stream |-> stream, callback |-> callback, args |-> args]

\* (a variant that passes the registry's action type on as it is)
onActionListenerRawType(callback, type, data) ==
  <<Call("onAction", callback, <<type, data>>)>>

\* onAction: listener = (event, type, data) =>
\*   fire.async(ActivityStreamActions[type], data)
onActionListener(callback, type, data) ==
  <<Call("onAction", callback, <<ActivityStreamActions[type], data>>)>>

\* ActionEventManagerFactory(action): listener = (event, type, data) =>
\*   type === action && fire.async(data)
singleActionListener(action, callback, type, data) ==
  IF type = action THEN <<Call(StreamOf(action), callback, <<data>>)>>
  ELSE <<>>

\* the calls one listener on ACTION_DISPATCHED queues
RunActionListener(l, type, data) ==
  IF l.stream = "onAction"
  THEN onActionListener(l.callback, type, data)
  ELSE singleActionListener(
         CHOOSE a \in ActionTypes : StreamOf(a) = l.stream,
         l.callback, type, data)

\* emit(ACTION_DISPATCHED, type, data): the listeners run in order
RECURSIVE EmitAction(_, _, _)
EmitAction(ls, type, data) ==
  IF ls = <<>> THEN <<>>
  ELSE RunActionListener(Head(ls), type, data)
         \o EmitAction(Tail(ls), type, data)

Listener(stream, callback) == [stream |-> stream, callback |-> callback]

bridgeVars ==
  <<initialized, sections, options, builtin, initEmitter, onInitSub,
    onUninitSub, tickListeners, inbox, emitted, alive, cards, lastUpdated,
    now, flights, fetchSeq, lastLifecycle, initFires, lifecycleOpen,
    enableRequested, hung>>

\* browser.newTabSection.<stream>.addListener(callback): the register
\* function puts a new listener on ACTION_DISPATCHED
ActionAddListener(stream, callback) ==
  /\ alive
  /\ Listener(stream, callback) \notin Range(actionListeners)
  /\ Len(actionListeners) < MaxListeners
  /\ actionListeners' = Append(actionListeners, Listener(stream, callback))
  /\ lastOp' = Op(stream \o ".addListener", callback)
  /\ received' = <<>>
  /\ UNCHANGED <<bridgeVars, pureVars, actionInbox>>

\* browser.newTabSection.<stream>.removeListener(callback): the function
\* returned by register takes the listener off ACTION_DISPATCHED
ActionRemoveListener(stream, callback) ==
  /\ alive
  /\ Listener(stream, callback) \in Range(actionListeners)
  /\ actionListeners' =
       SelectSeq(actionListeners, LAMBDA l : l # Listener(stream, callback))
  /\ lastOp' = Op(stream \o ".removeListener", callback)
  /\ received' = <<>>
  /\ UNCHANGED <<bridgeVars, pureVars, actionInbox>>

\* the registry proxies a dispatched action: ACTION_DISPATCHED is emitted
DispatchAction(type, data) ==
  /\ initialized
  /\ sections # {}
  /\ actionInbox' = actionInbox \o EmitAction(actionListeners, type, data)
  /\ Len(actionInbox') <= MaxActionInbox
  /\ lastOp' = Op(type, data)
  /\ received' = <<>>
  /\ UNCHANGED <<bridgeVars, pureVars, actionListeners>>

\* a queued call is due: it runs if its callback is still registered on
\* its stream, and is dropped otherwise
ActionDeliver ==
  /\ actionInbox # <<>>
  /\ actionInbox' = Tail(actionInbox)
  /\ LET c == Head(actionInbox)
     IN IF Listener(c.stream, c.callback) \in Range(actionListeners)
        THEN received' = c /\ lastOp' = Op("action call", "run")
        ELSE received' = <<>> /\ lastOp' = Op("action call", "dropped")
  /\ UNCHANGED <<bridgeVars, pureVars, actionListeners>>

\* The action streams: subscriptions, dispatched actions, deliveries
NextActions ==
  \/ RegistryInit
  \/ RegistryUninit
  \/ \E st \in Streams, cb \in Callbacks : ActionAddListener(st, cb)
  \/ \E st \in Streams, cb \in Callbacks : ActionRemoveListener(st, cb)
  \/ \E t \in ActionTypes, d \in Payloads : DispatchAction(t, d)
  \/ ActionDeliver

SpecActions == Init /\ [][NextActions]_vars

\* the calls a step has queued
NewCalls ==
  SubSeq(actionInbox', Len(actionInbox) + 1, Len(actionInbox'))

\* C12: a dispatched action (T, P) queues exactly one call (name of T, P)
\* for each onAction subscriber, exactly one call (P) for each subscriber
\* of the stream of T and none for the subscribers of another stream; a
\* call runs only while its callback is subscribed.
C12_ActionsReemitted ==
  [][/\ \A t \in ActionTypes, d \in Payloads :
          DispatchAction(t, d) =>
            /\ \A l \in Range(actionListeners) :
                 Cardinality({i \in DOMAIN NewCalls :
                                /\ NewCalls[i].stream = l.stream
                                /\ NewCalls[i].callback = l.callback})
                   = (IF l.stream \in {"onAction", StreamOf(t)} THEN 1 ELSE 0)
            /\ \A i \in DOMAIN NewCalls :
                 /\ Listener(NewCalls[i].stream, NewCalls[i].callback)
                      \in Range(actionListeners)
                 /\ NewCalls[i].args =
                      (IF NewCalls[i].stream = "onAction"
                       THEN <<ActivityStreamActions[t], d>> ELSE <<d>>)
     /\ (ActionDeliver /\ lastOp'.arg = "run") =>
          /\ Listener(received'.stream, received'.callback)
               \in Range(actionListeners)
          /\ received' = Head(actionInbox)
     /\ (ActionDeliver /\ Listener(Head(actionInbox).stream,
                                   Head(actionInbox).callback)
                            \notin Range(actionListeners)) =>
          received' = <<>>]_vars

C12_Witness ==
  /\ lastOp.op = "action call"
  /\ lastOp.arg = "run"
  /\ received.stream = "onAction"
  /\ received.args[1] = "NewTabOpened"
  /\ \E cb \in Callbacks :
       /\ Listener("onSystemTick", cb) \in Range(actionListeners)
       /\ Listener("onAction", cb) \in Range(actionListeners)
  /\ actionInbox = <<>>

\* =============================================================== poller
\* (a variant in which a failed request resolves with an empty list)
getCardsFailResolvesEmpty(i) ==
  /\ i \in 1..Len(flights)
  /\ hung' = hung \cup {flights[i]}
  /\ flights' = [j \in 1..(Len(flights) - 1) |->
                   IF j < i THEN flights[j] ELSE flights[j + 1]]
  /\ cards' = EmptyRows
  /\ lastUpdated' = now
  /\ Commit(addCards(Reg, EmptyRows, TRUE))
  /\ lastOp' = Op("getCards.error", ToString(i))
  /\ UNCHANGED <<initialized, initEmitter, onInitSub, onUninitSub,
                 tickListeners, alive, now, fetchSeq, lastLifecycle,
                 enableRequested, pureVars, actionVars>>

\* the i-th outstanding request ends without a "load" event (network error,
\* abort): getCards() has no other listener, so its promise never settles
\* and the suspended update(), and an init() waiting for it, never resume
getCardsFail(i) ==
  /\ i \in 1..Len(flights)
  /\ hung' = hung \cup {flights[i]}
  /\ flights' = [j \in 1..(Len(flights) - 1) |->
                   IF j < i THEN flights[j] ELSE flights[j + 1]]
  /\ emitted' = <<>>
  /\ lastOp' = Op("getCards.error", ToString(i))
  /\ UNCHANGED <<initialized, sections, options, builtin, initEmitter,
                 onInitSub, onUninitSub, tickListeners, inbox, alive, cards,
                 lastUpdated, now, fetchSeq, lastLifecycle, initFires,
                 lifecycleOpen, enableRequested, pureVars, actionVars>>

\* The poller of background.js with a clock and requests that can fail
NextPoller ==
  \/ RegistryInit
  \/ RegistryUninit
  \/ enable
  \/ onInitializedAddListener
  \/ onUninitializedAddListener
  \/ DispatchTick
  \/ init
  \/ uninit
  \/ tick
  \/ \E i \in 1..MaxFlights : getCardsLoad(i)
  \/ \E i \in 1..MaxFlights : getCardsFail(i)
  \/ \E d \in {1, UPDATE_INTERVAL} : TimePasses(d)

SpecPoller == Init /\ [][NextPoller]_vars

\* what the registry emits for addCards(c, true): one update of the rows
\* when the section is registered, nothing otherwise
Published(c) ==
  IF ExtId \in sections
  THEN <<Event("UPDATE_SECTION", ExtId, {"rows"}, TRUE)>>
  ELSE <<>>

\* a tick reaches update(): update is a listener of onSystemTick
TickRunsUpdate == tick /\ "update" \in tickListeners

\* C13: a tick with a cached list whose age is at most UPDATE_INTERVAL
\* (exactly the interval included) issues no fetch, leaves cards and
\* lastUpdated alone and makes one addCards(cards, true) call with the
\* cached list.
C13_FreshCacheRepublished ==
  [][(TickRunsUpdate /\ cards # NoRows /\ now - lastUpdated <= UPDATE_INTERVAL)
       => /\ UNCHANGED <<fetchSeq, flights, hung, cards, lastUpdated>>
          /\ emitted' = Published(cards)
          /\ ExtId \in sections => options' = [options EXCEPT !.rows = cards]
          /\ ExtId \notin sections => options' = options]_vars

C13_Witness ==
  /\ lastOp.op = "tick"
  /\ cards # NoRows
  /\ now - lastUpdated = UPDATE_INTERVAL
  /\ flights = <<>>
  /\ emitted = <<Event("UPDATE_SECTION", ExtId, {"rows"}, TRUE)>>
  /\ options.rows = cards

\* C14: a tick with no cached list or with one older than UPDATE_INTERVAL
\* issues exactly one fetch and publishes nothing; when the response of a
\* fetch arrives, cards becomes the fetched list, lastUpdated the time of
\* arrival, and one addCards(list, true) call is made, with no further fetch.
C14_StaleCacheFetchedOnce ==
  [][/\ (TickRunsUpdate /\ (cards = NoRows \/ now - lastUpdated > UPDATE_INTERVAL))
          => /\ fetchSeq' = fetchSeq + 1
             /\ flights' = Append(flights,
                                  [caller |-> "update", ver |-> fetchSeq'])
             /\ emitted' = <<>>
             /\ UNCHANGED <<cards, lastUpdated, options, sections, hung>>
     /\ \A i \in 1..MaxFlights :
          getCardsLoad(i)
          => /\ cards' = flights[i].ver
             /\ lastUpdated' = now
             /\ emitted' = Published(flights[i].ver)
             /\ ExtId \in sections => options'.rows = flights[i].ver
             /\ Len(flights') = Len(flights) - 1
             /\ UNCHANGED <<fetchSeq, hung, now>>]_vars

C14_Witness ==
  /\ lastOp.op = "getCards.load"
  /\ ~onUninitSub
  /\ lastLifecycle = "init"
  /\ fetchSeq = 2
  /\ hung = {}
  /\ flights = <<>>
  /\ cards = 2
  /\ now > UPDATE_INTERVAL
  /\ lastUpdated = now
  /\ options.rows = 2
  /\ emitted = <<Event("UPDATE_SECTION", ExtId, {"rows"}, TRUE)>>

\* C15: a failed fetch changes neither cards nor lastUpdated and makes no
\* addCards call: the registry and the rows stay as they are, at the failure
\* and ever after (the list of a failed fetch is never cached or published).
C15_FailedFetchLeavesCache ==
  [][/\ \A i \in 1..MaxFlights :
          getCardsFail(i)
          => /\ UNCHANGED <<cards, lastUpdated, options, sections>>
             /\ emitted' = <<>>
     /\ \A f \in hung' :
          /\ cards' # f.ver
          /\ options'.rows # f.ver]_vars

C15_Witness ==
  /\ lastOp.op = "getCards.error"
  /\ hung = {[caller |-> "update", ver |-> 2]}
  /\ cards = 1
  /\ options.rows = 1
  /\ lastUpdated # now
  /\ emitted = <<>>

\* the background script has run init and no uninit since, and nothing is
\* pending: no request is out and no event waits for the extension
LifecycleSettled ==
  /\ lastLifecycle \in {"init", "reinit"}
  /\ flights = <<>>
  /\ inbox = <<>>

\* C16: after a failed fetch the poller still has its tick subscription
\* (update is a listener of onSystemTick once the lifecycle has settled), so
\* the next tick runs update and retries, whether the failed fetch was
\* started by a tick or by init.
C16_FailedFetchKeepsTickSubscription ==
  (hung # {} /\ LifecycleSettled) => "update" \in tickListeners

\* the part of C16 that the code keeps: a failed fetch started by a tick
\* leaves the subscription in place
TickFetchFailureKeepsSubscription ==
  (hung # {} /\ LifecycleSettled
     /\ \A f \in hung : f.caller = "update")
  => "update" \in tickListeners

====
